---- MODULE Spec2Model ----
(***************************************************************************)
(* ProcessDock (kakoban/runer): the simulated process lifecycle of         *)
(* src/App.tsx, its capped per-project log store, the background emitter   *)
(* and the log generation adapter (services/geminiService).                *)
(*                                                                         *)
(* JavaScript runs one task at a time: every action below is one task of   *)
(* the event loop (a click handler, a timer callback, the continuation of  *)
(* an awaited adapter call) and is atomic.  React state is read by the     *)
(* handlers from the latest render and written with functional updates.    *)
(*                                                                         *)
(* A text is a sequence of string fragments whose concatenation is the     *)
(* JavaScript string; the collaborator's response text is a sequence of    *)
(* one-character fragments, so that split, trim and filter are computed.   *)
(*                                                                         *)
(* Log entries are modelled by their text and severity; the random id and  *)
(* the timestamp of an entry are read by the renderer only.                *)
(***************************************************************************)
EXTENDS Integers, Sequences, FiniteSets, Bags, TLC

VARIABLES
    projects,           \* useState<Project[]>: the project collection, in order
    processStates,      \* useState<Record<string, ProcessState>>: partial map
    logs,               \* useState<Record<string, LogEntry[]>>: partial map
    selectedProjectId,  \* useState<string | null>
    globalStatus,       \* useState<'idle' | 'running'>
    alerts,             \* the messages passed to window.alert so far
    startupCalls,       \* bag: generateStartupLogs calls awaited by startProcess
    startTimers,        \* bag: the setTimeout batches scheduled by startProcess
    stopTimers,         \* bag: the setTimeout(..., 1000) of stopProcess
    runtimeCalls,       \* bag: generateRuntimeLog calls awaited by the emitter
    added,              \* the ids handleAddProject has drawn
    ops,                \* how many budgeted operations have run (model bound)
    adapterIn,          \* an adapter call under test: function, project, collaborator
    adapterOut          \* and how its promise settled

vars == <<projects, processStates, logs, selectedProjectId, globalStatus, alerts,
          startupCalls, startTimers, stopTimers, runtimeCalls, added, ops,
          adapterIn, adapterOut>>

appVars == <<projects, processStates, logs, selectedProjectId, globalStatus, alerts,
             startupCalls, startTimers, stopTimers, runtimeCalls, added, ops>>

-----------------------------------------------------------------------------
(* Bounds of the model *)

\* start, stop and delete clicks and emitter requests that one behaviour runs
MaxOps == 2
\* length of the collaborator's response text in the adapter specification
MaxTextLen == 3

(* Program constants *)

LOG_CAP == 500
PID_SPAN == 9000
PID_BASE == 1000
\* Math.random() as a fixed-point numerator r / RAND_SCALE in [0, 1)
RAND_SCALE == 10000
EMIT_THRESHOLD == 7000

RandSamples == {0, RAND_SCALE - 1}

-----------------------------------------------------------------------------
(* types.ts *)

STOPPED == "STOPPED"
STARTING == "STARTING"
RUNNING == "RUNNING"
ERROR == "ERROR"
STOPPING == "STOPPING"

ProcessStatus == {STOPPED, STARTING, RUNNING, ERROR, STOPPING}

NoSelection == "<null>"

INITIAL_PROJECTS ==
    << [id |-> "1", command |-> "npm start", directory |-> "./client", port |-> 3000],
       [id |-> "2", command |-> "npm run dev", directory |-> "./server", port |-> 5000] >>

\* the port the add-project form is submitted with: its default
\* (AddProjectModal.tsx, useState<number>(3000)), which duplicates project 1's
Ports == {3000}

\* the ids Math.random().toString(36).substr(2, 9) can draw for a new project;
\* an id is not drawn twice
NewIds == {"n1"}

AllIds == {INITIAL_PROJECTS[i].id : i \in 1..Len(INITIAL_PROJECTS)} \cup NewIds

-----------------------------------------------------------------------------
(* String helpers: String.prototype.split('\n'), trim, and emptiness *)

IsSpace(c) == c \in {" ", "\n"}

RECURSIVE TrimStart(_)
TrimStart(s) ==
    IF s # <<>> /\ IsSpace(Head(s)) THEN TrimStart(Tail(s)) ELSE s

RECURSIVE TrimEnd(_)
TrimEnd(s) ==
    IF s # <<>> /\ IsSpace(s[Len(s)]) THEN TrimEnd(SubSeq(s, 1, Len(s) - 1)) ELSE s

Trim(s) == TrimEnd(TrimStart(s))

\* a JavaScript string is falsy exactly when it is ''
IsEmptyText(s) == \A i \in 1..Len(s) : s[i] = ""

RECURSIVE SplitLines(_)
SplitLines(s) ==
    IF \E i \in 1..Len(s) : s[i] = "\n"
    THEN LET i == CHOOSE k \in 1..Len(s) :
                      s[k] = "\n" /\ \A j \in 1..(k - 1) : s[j] # "\n"
         IN  <<SubSeq(s, 1, i - 1)>> \o SplitLines(SubSeq(s, i + 1, Len(s)))
    ELSE <<s>>

NonBlank(line) == ~IsEmptyText(Trim(line))

-----------------------------------------------------------------------------
(* services/geminiService: the log generation adapter *)

Chars == {"x", " ", "\n"}

RECURSIVE TextsOfLen(_)
TextsOfLen(n) ==
    IF n = 0 THEN {<<>>}
    ELSE {Append(t, c) : t \in TextsOfLen(n - 1), c \in Chars}

ResponseTexts(n) == UNION {TextsOfLen(k) : k \in 0..n}

\* What the external collaborator does on one call: the client constructor
\* throws, or the request rejects, or a response arrives whose text is
\* absent (hasText = FALSE) or the given string.
Collaborators(n) ==
    [ctorThrows : BOOLEAN, requestThrows : BOOLEAN, hasText : BOOLEAN,
     text : ResponseTexts(n)]

Collab(ctor, req, has, text) ==
    [ctorThrows |-> ctor, requestThrows |-> req, hasText |-> has, text |-> text]

\* the collaborator behaviours the lifecycle is run against
AppCollaborators ==
    { Collab(TRUE, FALSE, FALSE, <<>>),
      Collab(FALSE, FALSE, FALSE, <<>>),
      Collab(FALSE, FALSE, TRUE, <<"\n">>) }

Resolved(v) == [state |-> "resolved", value |-> v]
Rejected == [state |-> "rejected", value |-> <<>>]
Pending == [state |-> "pending", value |-> <<>>]

StartupFallback(project) ==
    << <<"> ", project.command>>,
       <<"Starting development server...">>,
       <<"Process initialized (Simulated Fallback)">> >>

generateStartupLogs(project, c) ==
    IF c.ctorThrows \/ c.requestThrows
    THEN Resolved(StartupFallback(project))
    ELSE LET text == IF c.hasText /\ ~IsEmptyText(c.text)
                     THEN c.text
                     ELSE <<"Initializing process...">>
         IN  Resolved(SelectSeq(SplitLines(text), NonBlank))

generateRuntimeLog(project, c) ==
    IF c.ctorThrows
    THEN Rejected
    ELSE IF c.requestThrows
    THEN Resolved(<<"[INFO] Keep-alive ping...">>)
    ELSE LET trimmed == IF c.hasText THEN Trim(c.text) ELSE <<>>
         IN  IF c.hasText /\ ~IsEmptyText(trimmed)
             THEN Resolved(trimmed)
             ELSE Resolved(<<"[INFO] Request processed /api/v1/status 200 OK">>)

-----------------------------------------------------------------------------
(* App.tsx: derived state and helpers *)

ProjectIds == {projects[i].id : i \in 1..Len(projects)}

\* projects.find(p => p.id === id), for an id in ProjectIds
Find(id) == projects[CHOOSE i \in 1..Len(projects) : projects[i].id = id]

StatusOf(id) ==
    IF id \in DOMAIN processStates THEN processStates[id].status ELSE STOPPED

RunningIds == {id \in DOMAIN processStates : processStates[id].status = RUNNING}

\* activePorts with the filter on the wrong status
activePortsOfStarting ==
    {projects[i].port : i \in {k \in 1..Len(projects) :
        /\ projects[k].id \in DOMAIN processStates
        /\ processStates[projects[k].id].status = STARTING}}

\* the ports of the RUNNING entries whose project is still in the collection
\* (projects.find(...)?.port is undefined for the others)
activePorts == {Find(id).port : id \in RunningIds \cap ProjectIds}

LogOf(l, id) == IF id \in DOMAIN l THEN l[id] ELSE <<>>

\* slice(0, n) in place of slice(-n): keeps the oldest entries
SliceFirst(s, n) == IF Len(s) <= n THEN s ELSE SubSeq(s, 1, n)

\* Array.prototype.slice(-n)
SliceLast(s, n) == IF Len(s) <= n THEN s ELSE SubSeq(s, Len(s) - n + 1, Len(s))

Entry(text, type) == [text |-> text, type |-> type]

\* setLogs(prev => ({...prev, [projectId]: [...(prev[projectId] || []), entry].slice(-500)}))
addLog(l, projectId, text, type) ==
    [x \in DOMAIN l \cup {projectId} |->
        IF x = projectId
        THEN SliceLast(Append(LogOf(l, projectId), Entry(text, type)), LOG_CAP)
        ELSE l[x]]

\* setProcessStates(prev => ({...prev, [projectId]: state}))
SetState(ps, projectId, state) ==
    [x \in DOMAIN ps \cup {projectId} |-> IF x = projectId THEN state ELSE ps[x]]

RandomPid(r) == ((r * PID_SPAN) \div RAND_SCALE) + PID_BASE

\* Date.now(), as read by startProcess
Times == {1}

EchoText(project) == <<"> cd ", project.directory, " && ", project.command>>
PortBusyText(project) ==
    <<"ERROR: Port ", ToString(project.port),
      " is already in use by another managed process!">>
StartedText(port) == <<"Process started successfully on port ", ToString(port)>>
SigtermText == <<"Sending signal SIGTERM...">>
TerminatedText == <<"Process terminated.">>
DeleteRefusedText == "Please stop the process before deleting."

-----------------------------------------------------------------------------
(* Initial state: no saved projects in localStorage, nothing started *)

EmptyMap == [x \in {} |-> x]

NoAdapterCall == [fn |-> "none", project |-> INITIAL_PROJECTS[1],
                  collaborator |-> Collab(FALSE, FALSE, FALSE, <<>>)]

AdapterIdle == UNCHANGED <<adapterIn, adapterOut>>

Init ==
    /\ projects = INITIAL_PROJECTS
    /\ processStates = EmptyMap
    /\ logs = EmptyMap
    /\ selectedProjectId = INITIAL_PROJECTS[1].id
    /\ globalStatus = "idle"
    /\ alerts = <<>>
    /\ startupCalls = EmptyBag
    /\ startTimers = EmptyBag
    /\ stopTimers = EmptyBag
    /\ runtimeCalls = EmptyBag
    /\ added = {}
    /\ ops = 0
    /\ adapterIn = NoAdapterCall
    /\ adapterOut = Pending

-----------------------------------------------------------------------------
(* App.tsx: the handlers *)

\* onClick={() => setSelectedProjectId(project.id)}
selectProject(id) ==
    /\ selectedProjectId' = id
    /\ UNCHANGED <<projects, processStates, logs, globalStatus, alerts, startupCalls,
                   startTimers, stopTimers, runtimeCalls, added, ops>>
    /\ AdapterIdle

handleAddProject(id, port) ==
    LET newProject == [id |-> id, command |-> "npm run start",
                       directory |-> "./my-project", port |-> port]
    IN  /\ id \notin added
        /\ added' = added \cup {id}
        /\ projects' = Append(projects, newProject)
        /\ selectedProjectId' = newProject.id
        /\ UNCHANGED <<processStates, logs, globalStatus, alerts, startupCalls,
                       startTimers, stopTimers, runtimeCalls, ops>>
        /\ AdapterIdle

\* handleDeleteProject without its RUNNING check
handleDeleteProjectUnguarded(id) ==
    /\ ops < MaxOps
    /\ ops' = ops + 1
    /\ projects' = SelectSeq(projects, LAMBDA p : p.id # id)
    /\ selectedProjectId' =
           IF selectedProjectId = id THEN NoSelection ELSE selectedProjectId
    /\ UNCHANGED <<processStates, logs, globalStatus, alerts, startupCalls,
                   startTimers, stopTimers, runtimeCalls, added>>
    /\ AdapterIdle

\* handleDeleteProject that leaves the selection on the deleted project
handleDeleteProjectKeepSelection(id) ==
    /\ ops < MaxOps
    /\ ops' = ops + 1
    /\ IF id \in DOMAIN processStates /\ processStates[id].status = RUNNING
       THEN /\ alerts' = Append(alerts, DeleteRefusedText)
            /\ UNCHANGED projects
       ELSE /\ projects' = SelectSeq(projects, LAMBDA p : p.id # id)
            /\ UNCHANGED alerts
    /\ UNCHANGED <<selectedProjectId, processStates, logs, globalStatus, startupCalls,
                   startTimers, stopTimers, runtimeCalls, added>>
    /\ AdapterIdle

handleDeleteProject(id) ==
    /\ ops < MaxOps
    /\ ops' = ops + 1
    /\ IF id \in DOMAIN processStates /\ processStates[id].status = RUNNING
       THEN /\ alerts' = Append(alerts, DeleteRefusedText)
            /\ UNCHANGED <<projects, selectedProjectId>>
       ELSE /\ projects' = SelectSeq(projects, LAMBDA p : p.id # id)
            /\ selectedProjectId' =
                   IF selectedProjectId = id THEN NoSelection ELSE selectedProjectId
            /\ UNCHANGED alerts
    /\ UNCHANGED <<processStates, logs, globalStatus, startupCalls, startTimers,
                   stopTimers, runtimeCalls, added>>
    /\ AdapterIdle

\* startProcess that schedules the Running timer at once, from an expected
\* line count of zero, without awaiting generateStartupLogs
startProcessUngated(projectId, t) ==
    /\ projectId \in ProjectIds
    /\ ops < MaxOps
    /\ ops' = ops + 1
    /\ LET project == Find(projectId)
       IN  IF project.port \in activePorts
           THEN /\ logs' = addLog(logs, projectId, PortBusyText(project), "error")
                /\ UNCHANGED <<processStates, startTimers>>
           ELSE /\ processStates' = SetState(processStates, projectId,
                                       [status |-> STARTING, startTime |-> t])
                /\ logs' = addLog(logs, projectId, EchoText(project), "info")
                /\ startTimers' = startTimers (+)
                       SetToBag({[id |-> projectId, port |-> project.port,
                                  lines |-> <<>>]})
    /\ UNCHANGED <<projects, selectedProjectId, globalStatus, alerts, startupCalls,
                   stopTimers, runtimeCalls, added>>
    /\ AdapterIdle

\* startProcess up to its await; t is Date.now()
startProcess(projectId, t) ==
    /\ projectId \in ProjectIds
    /\ ops < MaxOps
    /\ ops' = ops + 1
    /\ LET project == Find(projectId)
       IN  IF project.port \in activePorts
           THEN /\ logs' = addLog(logs, projectId, PortBusyText(project), "error")
                /\ UNCHANGED <<processStates, startupCalls>>
           ELSE /\ processStates' = SetState(processStates, projectId,
                                       [status |-> STARTING, startTime |-> t])
                /\ logs' = addLog(logs, projectId, EchoText(project), "info")
                /\ startupCalls' = startupCalls (+)
                       SetToBag({[id |-> projectId, project |-> project]})
    /\ UNCHANGED <<projects, selectedProjectId, globalStatus, alerts, startTimers,
                   stopTimers, runtimeCalls, added>>
    /\ AdapterIdle

\* startProcess after its await: the staggered log timers (index * 200) and the
\* Running timer (length * 200 + 500) are scheduled together, so within one
\* batch the lines fire in order and the Running timer fires last.
startupLogsSettled(call, c) ==
    /\ BagIn(call, startupCalls)
    /\ LET startupLines == generateStartupLogs(call.project, c).value
       IN  startTimers' = startTimers (+)
               SetToBag({[id |-> call.id, port |-> call.project.port,
                          lines |-> startupLines]})
    /\ startupCalls' = startupCalls (-) SetToBag({call})
    /\ UNCHANGED <<projects, processStates, logs, selectedProjectId, globalStatus,
                   alerts, stopTimers, runtimeCalls, added, ops>>
    /\ AdapterIdle

\* setTimeout(() => addLog(projectId, line, 'info'), index * 200)
staggeredLogTimer(batch) ==
    /\ BagIn(batch, startTimers)
    /\ batch.lines # <<>>
    /\ logs' = addLog(logs, batch.id, Head(batch.lines), "info")
    /\ startTimers' = (startTimers (-) SetToBag({batch})) (+)
           SetToBag({[batch EXCEPT !.lines = Tail(batch.lines)]})
    /\ UNCHANGED <<projects, processStates, selectedProjectId, globalStatus, alerts,
                   startupCalls, stopTimers, runtimeCalls, added, ops>>
    /\ AdapterIdle

\* the Running timer logging its line with the default severity
runningTimerInfo(batch, r) ==
    /\ BagIn(batch, startTimers)
    /\ batch.lines = <<>>
    /\ processStates' = SetState(processStates, batch.id,
                            [status |-> RUNNING, pid |-> RandomPid(r)])
    /\ logs' = addLog(logs, batch.id, StartedText(batch.port), "info")
    /\ startTimers' = startTimers (-) SetToBag({batch})
    /\ UNCHANGED <<projects, selectedProjectId, globalStatus, alerts, startupCalls,
                   stopTimers, runtimeCalls, added, ops>>
    /\ AdapterIdle

\* setTimeout(() => {RUNNING, pid; addLog success}, startupLines.length * 200 + 500)
runningTimer(batch, r) ==
    /\ BagIn(batch, startTimers)
    /\ batch.lines = <<>>
    /\ processStates' = SetState(processStates, batch.id,
                            [status |-> RUNNING, pid |-> RandomPid(r)])
    /\ logs' = addLog(logs, batch.id, StartedText(batch.port), "success")
    /\ startTimers' = startTimers (-) SetToBag({batch})
    /\ UNCHANGED <<projects, selectedProjectId, globalStatus, alerts, startupCalls,
                   stopTimers, runtimeCalls, added, ops>>
    /\ AdapterIdle

\* stopProcess spreading the previous ProcessState into the new one
stopProcessKeepsPid(projectId) ==
    /\ ops < MaxOps
    /\ ops' = ops + 1
    /\ processStates' = SetState(processStates, projectId,
           IF projectId \in DOMAIN processStates /\ "pid" \in DOMAIN processStates[projectId]
           THEN [status |-> STOPPING, pid |-> processStates[projectId].pid]
           ELSE [status |-> STOPPING])
    /\ logs' = addLog(logs, projectId, SigtermText, "info")
    /\ stopTimers' = stopTimers (+) SetToBag({projectId})
    /\ UNCHANGED <<projects, selectedProjectId, globalStatus, alerts, startupCalls,
                   startTimers, runtimeCalls, added>>
    /\ AdapterIdle

\* stopProcess: STOPPING, the SIGTERM entry, and the timer of 1000 ms
stopProcess(projectId) ==
    /\ ops < MaxOps
    /\ ops' = ops + 1
    /\ processStates' = SetState(processStates, projectId, [status |-> STOPPING])
    /\ logs' = addLog(logs, projectId, SigtermText, "info")
    /\ stopTimers' = stopTimers (+) SetToBag({projectId})
    /\ UNCHANGED <<projects, selectedProjectId, globalStatus, alerts, startupCalls,
                   startTimers, runtimeCalls, added>>
    /\ AdapterIdle

\* setTimeout(() => {STOPPED; addLog 'Process terminated.' error}, 1000)
stopTimer(projectId) ==
    /\ BagIn(projectId, stopTimers)
    /\ processStates' = SetState(processStates, projectId, [status |-> STOPPED])
    /\ logs' = addLog(logs, projectId, TerminatedText, "error")
    /\ stopTimers' = stopTimers (-) SetToBag({projectId})
    /\ UNCHANGED <<projects, selectedProjectId, globalStatus, alerts, startupCalls,
                   startTimers, runtimeCalls, added, ops>>
    /\ AdapterIdle

\* the emitter picking among all projects instead of the running ones
emitterTickAnyProject(randomId, r) ==
    /\ IF RunningIds # {}
       THEN /\ globalStatus' = "running"
            /\ randomId \in ProjectIds
            /\ IF r > EMIT_THRESHOLD
               THEN /\ ops < MaxOps
                    /\ ops' = ops + 1
                    /\ runtimeCalls' = runtimeCalls (+)
                           SetToBag({[id |-> Find(randomId).id,
                                      project |-> Find(randomId)]})
               ELSE UNCHANGED <<runtimeCalls, ops>>
       ELSE /\ globalStatus' = "idle"
            /\ UNCHANGED <<runtimeCalls, ops>>
    /\ UNCHANGED <<projects, processStates, logs, selectedProjectId, alerts,
                   startupCalls, startTimers, stopTimers, added>>
    /\ AdapterIdle

\* the setInterval callback up to its await; randomId is the project the first
\* Math.random() picks among the running ones, r the second Math.random()
emitterTick(randomId, r) ==
    /\ IF RunningIds # {}
       THEN /\ globalStatus' = "running"
            /\ randomId \in RunningIds
            /\ IF randomId \in ProjectIds /\ r > EMIT_THRESHOLD
               THEN /\ ops < MaxOps
                    /\ ops' = ops + 1
                    /\ runtimeCalls' = runtimeCalls (+)
                           SetToBag({[id |-> Find(randomId).id,
                                      project |-> Find(randomId)]})
               ELSE UNCHANGED <<runtimeCalls, ops>>
       ELSE /\ globalStatus' = "idle"
            /\ UNCHANGED <<runtimeCalls, ops>>
    /\ UNCHANGED <<projects, processStates, logs, selectedProjectId, alerts,
                   startupCalls, startTimers, stopTimers, added>>
    /\ AdapterIdle

\* the setInterval callback after its await: addLog(project.id, logLine, 'info'),
\* or nothing when generateRuntimeLog rejected
runtimeLogSettled(call, c) ==
    /\ BagIn(call, runtimeCalls)
    /\ runtimeCalls' = runtimeCalls (-) SetToBag({call})
    /\ LET logLine == generateRuntimeLog(call.project, c)
       IN  IF logLine.state = "resolved"
           THEN logs' = addLog(logs, call.id, logLine.value, "info")
           ELSE UNCHANGED logs
    /\ UNCHANGED <<projects, processStates, selectedProjectId, globalStatus, alerts,
                   startupCalls, startTimers, stopTimers, added, ops>>
    /\ AdapterIdle

-----------------------------------------------------------------------------
(* The user interface: which handler a click can reach (App.tsx render) *)

\* the sidebar lists every project
SelectClick == \E id \in ProjectIds : selectProject(id)

\* AddProjectModal onSave
AddClick == \E id \in NewIds, port \in Ports : handleAddProject(id, port)

\* the header of the selected project shows Stop while RUNNING or STARTING,
\* Start otherwise
ShowsStop(id) ==
    id \in DOMAIN processStates /\ processStates[id].status \in {RUNNING, STARTING}

StartClick ==
    \E id \in ProjectIds \cap {selectedProjectId}, t \in Times :
        ~ShowsStop(id) /\ startProcess(id, t)

StopClick ==
    \E id \in ProjectIds \cap {selectedProjectId} :
        ShowsStop(id) /\ stopProcess(id)

DeleteClick ==
    \E id \in ProjectIds \cap {selectedProjectId} : handleDeleteProject(id)

StartupLogsSettled ==
    \E call \in BagToSet(startupCalls), c \in AppCollaborators :
        startupLogsSettled(call, c)

StaggeredLogTimer == \E batch \in BagToSet(startTimers) : staggeredLogTimer(batch)

RunningTimer ==
    \E batch \in BagToSet(startTimers), r \in RandSamples : runningTimer(batch, r)

StopTimer == \E id \in BagToSet(stopTimers) : stopTimer(id)

EmitterTick == \E randomId \in AllIds, r \in RandSamples : emitterTick(randomId, r)

RuntimeLogSettled ==
    \E call \in BagToSet(runtimeCalls), c \in AppCollaborators :
        runtimeLogSettled(call, c)

Next ==
    \/ SelectClick
    \/ AddClick
    \/ StartClick
    \/ StopClick
    \/ DeleteClick
    \/ StartupLogsSettled
    \/ StaggeredLogTimer
    \/ RunningTimer
    \/ StopTimer
    \/ EmitterTick
    \/ RuntimeLogSettled

Spec == Init /\ [][Next]_vars

-----------------------------------------------------------------------------
(* Scheduling.  A pending setTimeout callback is run by the event loop;    *)
(* TimerFairSpec states that and nothing about the collaborator.  FairSpec *)
(* adds that every adapter call settles (the request resolves or rejects). *)
(* The user's clicks and the emitter's random draws carry no fairness.     *)

TimerFairness ==
    /\ WF_vars(StaggeredLogTimer)
    /\ WF_vars(RunningTimer)
    /\ WF_vars(StopTimer)

AdapterFairness ==
    /\ WF_vars(StartupLogsSettled)
    /\ WF_vars(RuntimeLogSettled)

TimerFairSpec == Spec /\ TimerFairness

FairSpec == Spec /\ TimerFairness /\ AdapterFairness

-----------------------------------------------------------------------------
(* The adapter on its own: one call of either function against every       *)
(* behaviour of the collaborator with a response text of at most           *)
(* MaxTextLen characters.                                                  *)

AdapterInit ==
    /\ projects = INITIAL_PROJECTS
    /\ processStates = EmptyMap
    /\ logs = EmptyMap
    /\ selectedProjectId = INITIAL_PROJECTS[1].id
    /\ globalStatus = "idle"
    /\ alerts = <<>>
    /\ startupCalls = EmptyBag
    /\ startTimers = EmptyBag
    /\ stopTimers = EmptyBag
    /\ runtimeCalls = EmptyBag
    /\ added = {}
    /\ ops = 0
    /\ adapterIn \in [fn : {"generateStartupLogs", "generateRuntimeLog"},
                      project : {INITIAL_PROJECTS[i] : i \in 1..Len(INITIAL_PROJECTS)},
                      collaborator : Collaborators(MaxTextLen)]
    /\ adapterOut = Pending

CallStartupLogs ==
    /\ adapterIn.fn = "generateStartupLogs"
    /\ adapterOut = Pending
    /\ adapterOut' = generateStartupLogs(adapterIn.project, adapterIn.collaborator)
    /\ UNCHANGED <<appVars, adapterIn>>

CallRuntimeLog ==
    /\ adapterIn.fn = "generateRuntimeLog"
    /\ adapterOut = Pending
    /\ adapterOut' = generateRuntimeLog(adapterIn.project, adapterIn.collaborator)
    /\ UNCHANGED <<appVars, adapterIn>>

AdapterNext == CallStartupLogs \/ CallRuntimeLog

AdapterSpec == AdapterInit /\ [][AdapterNext]_vars

-----------------------------------------------------------------------------
(* The log store near its cap: project 1 was started against a collaborator *)
(* that answered without text, and has been RUNNING while the emitter       *)
(* appended runtime lines, up to LOG_CAP - 1 entries: the next append      *)
(* fills the log and every later one evicts.                                *)

RuntimeLine(i) ==
    IF i % 3 = 0 THEN <<"[INFO] Keep-alive ping...">>
    ELSE IF i % 3 = 1 THEN <<"[INFO] Request processed /api/v1/status 200 OK">>
    ELSE <<"x">>

LongLog(project, n) ==
    [i \in 1..n |->
        IF i = 1 THEN Entry(EchoText(project), "info")
        ELSE IF i = 2 THEN Entry(<<"Initializing process...">>, "info")
        ELSE IF i = 3 THEN Entry(StartedText(project.port), "success")
        ELSE Entry(RuntimeLine(i), "info")]

LogInit ==
    /\ projects = INITIAL_PROJECTS
    /\ processStates = SetState(EmptyMap, INITIAL_PROJECTS[1].id,
                           [status |-> RUNNING, pid |-> RandomPid(0)])
    /\ logs = SetState(EmptyMap, INITIAL_PROJECTS[1].id,
                       LongLog(INITIAL_PROJECTS[1], LOG_CAP - 1))
    /\ selectedProjectId = INITIAL_PROJECTS[1].id
    /\ globalStatus = "running"
    /\ alerts = <<>>
    /\ startupCalls = EmptyBag
    /\ startTimers = EmptyBag
    /\ stopTimers = EmptyBag
    /\ runtimeCalls = EmptyBag
    /\ added = {}
    /\ ops = 0
    /\ adapterIn = NoAdapterCall
    /\ adapterOut = Pending

LogSpec == LogInit /\ [][Next]_vars

-----------------------------------------------------------------------------
(* Vocabulary of the properties *)

HasPid(id) == id \in DOMAIN processStates /\ "pid" \in DOMAIN processStates[id]

HasStartTime(id) ==
    id \in DOMAIN processStates /\ "startTime" \in DOMAIN processStates[id]

\* this step wrote a different ProcessState for id
StateChanged(id) ==
    /\ id \in DOMAIN processStates'
    /\ id \in DOMAIN processStates => processStates'[id] # processStates[id]

\* nothing is pending: no timer and no adapter call
Settled ==
    /\ startupCalls = EmptyBag
    /\ startTimers = EmptyBag
    /\ stopTimers = EmptyBag
    /\ runtimeCalls = EmptyBag

\* new is old with the one entry e added at the end, the oldest entry evicted
\* when old already holds LOG_CAP entries
AppendedOne(old, new, e) ==
    /\ new # <<>>
    /\ new[Len(new)] = e
    /\ IF Len(old) < LOG_CAP
       THEN /\ Len(new) = Len(old) + 1
            /\ \A i \in 1..Len(old) : new[i] = old[i]
       ELSE /\ Len(new) = LOG_CAP
            /\ \A i \in 1..(LOG_CAP - 1) : new[i] = old[i + 1]

\* the logs of every project but id are as they were
OtherLogsUnchanged(id) ==
    \A x \in (DOMAIN logs \cup DOMAIN logs') \ {id} : LogOf(logs', x) = LogOf(logs, x)

\* stop(id) has been invoked and no start(id) was accepted after it: the log
\* of id holds a SIGTERM entry with no invocation echo behind it
StopInvokedLast(id) ==
    \E i \in 1..Len(LogOf(logs, id)) :
        /\ logs[id][i].text = SigtermText
        /\ \A j \in (i + 1)..Len(logs[id]) : logs[id][j].text[1] # "> cd "

-----------------------------------------------------------------------------
(* C1: once stop(id) has been invoked and every pending timer and adapter  *)
(* call has fired, the status of id is STOPPED and its ProcessState holds  *)
(* no pid; also when stop was invoked while id was STARTING.               *)
C1_StopSettlesStopped ==
    \A id \in AllIds :
        (Settled /\ StopInvokedLast(id)) => (StatusOf(id) = STOPPED /\ ~HasPid(id))

-----------------------------------------------------------------------------
PortHeldByRunning(id) ==
    /\ id \in ProjectIds
    /\ \E q \in ProjectIds : StatusOf(q) = RUNNING /\ Find(q).port = Find(id).port

NamesPort(text, port) == \E i \in 1..Len(text) : text[i] = ToString(port)

(* C2: start(P) while a RUNNING project of the collection declares P's     *)
(* port changes no ProcessState, schedules no timer, calls no adapter and  *)
(* appends exactly one entry, to P's log, of severity error, naming P's    *)
(* port.                                                                   *)
C2_PortConflictStart ==
    [][\A id \in AllIds, t \in Times :
          (startProcess(id, t) /\ PortHeldByRunning(id)) =>
              /\ UNCHANGED <<processStates, startupCalls, startTimers, stopTimers,
                             runtimeCalls>>
              /\ \E e \in {LogOf(logs', id)[k] : k \in 1..Len(LogOf(logs', id))} :
                     /\ e.type = "error"
                     /\ NamesPort(e.text, Find(id).port)
                     /\ AppendedOne(LogOf(logs, id), LogOf(logs', id), e)
              /\ OtherLogsUnchanged(id)]_vars

C2_Witness ==
    \E id \in ProjectIds :
        /\ PortHeldByRunning(id)
        /\ StatusOf(id) # RUNNING
        /\ LogOf(logs, id) # <<>>
        /\ logs[id][Len(logs[id])] = Entry(PortBusyText(Find(id)), "error")

-----------------------------------------------------------------------------
\* the step appended the entry e to the log of id
Appends(id, e) == AppendedOne(LogOf(logs, id), LogOf(logs', id), e)

(* C3: a log never holds more than LOG_CAP entries, and every change of a  *)
(* log adds one entry at its end, evicting exactly the oldest entry when   *)
(* the log was full, the rest keeping their order.                         *)
C3_LogCapped ==
    /\ [](\A id \in DOMAIN logs : Len(logs[id]) <= LOG_CAP)
    /\ [][/\ \A id \in AllIds :
                LogOf(logs', id) # LogOf(logs, id) =>
                    /\ LogOf(logs', id) # <<>>
                    /\ Appends(id, LogOf(logs', id)[Len(LogOf(logs', id))])
          /\ \A id \in AllIds, t \in Times :
                startProcess(id, t) =>
                    \/ Appends(id, Entry(EchoText(Find(id)), "info"))
                    \/ Appends(id, Entry(PortBusyText(Find(id)), "error"))
          /\ \A id \in AllIds :
                stopProcess(id) => Appends(id, Entry(SigtermText, "info"))
          /\ \A batch \in BagToSet(startTimers) :
                staggeredLogTimer(batch) =>
                    Appends(batch.id, Entry(Head(batch.lines), "info"))
          /\ \A batch \in BagToSet(startTimers), r \in RandSamples :
                runningTimer(batch, r) =>
                    Appends(batch.id, Entry(StartedText(batch.port), "success"))
          /\ \A id \in BagToSet(stopTimers) :
                stopTimer(id) => Appends(id, Entry(TerminatedText, "error"))
          /\ \A call \in BagToSet(runtimeCalls), c \in AppCollaborators :
                (runtimeLogSettled(call, c) /\ ~c.ctorThrows) =>
                    \E e \in {LogOf(logs', call.id)[k] :
                                  k \in 1..Len(LogOf(logs', call.id))} :
                        e.type = "info" /\ Appends(call.id, e)]_vars

\* a full log whose oldest entry, the invocation echo, has been evicted
C3_Witness ==
    \E id \in DOMAIN logs :
        /\ Len(logs[id]) = LOG_CAP
        /\ logs[id][1].text[1] # "> cd "
        /\ logs[id][LOG_CAP].text = TerminatedText

-----------------------------------------------------------------------------
(* C4: both adapter calls settle by resolving, never by rejecting, and     *)
(* with a non-empty result, whatever the collaborator does: a non-empty    *)
(* sequence of lines from generateStartupLogs, a non-empty string from     *)
(* generateRuntimeLog.                                                     *)
C4_AdapterAlwaysUsable ==
    adapterOut # Pending =>
        /\ adapterOut.state = "resolved"
        /\ IF adapterIn.fn = "generateStartupLogs"
           THEN Len(adapterOut.value) > 0
           ELSE ~IsEmptyText(adapterOut.value)

\* C4 for generateStartupLogs alone: it resolves with at least one line
C4_StartupNeverEmpty ==
    (adapterIn.fn = "generateStartupLogs" /\ adapterOut # Pending) =>
        (adapterOut.state = "resolved" /\ Len(adapterOut.value) > 0)

\* C4 for generateRuntimeLog alone: it never rejects
C4_RuntimeNeverRejects ==
    (adapterIn.fn = "generateRuntimeLog" /\ adapterOut # Pending) =>
        adapterOut.state = "resolved"

-----------------------------------------------------------------------------
HasSuccessEntry(id) ==
    \E i \in 1..Len(LogOf(logs, id)) : logs[id][i].type = "success"

-----------------------------------------------------------------------------
(* C6: deleteProject(id) while id is RUNNING is refused: the collection,   *)
(* the selection, every ProcessState and every log are unchanged and one   *)
(* message is shown to the user.                                           *)
C6_DeleteRunningRefused ==
    [][\A id \in AllIds :
          (handleDeleteProject(id) /\ StatusOf(id) = RUNNING) =>
              /\ UNCHANGED <<projects, selectedProjectId, processStates, logs>>
              /\ Len(alerts') = Len(alerts) + 1
              /\ alerts'[Len(alerts')] # ""]_vars

C6_Witness ==
    /\ alerts # <<>>
    /\ selectedProjectId \in ProjectIds
    /\ StatusOf(selectedProjectId) = RUNNING

-----------------------------------------------------------------------------
PendingCalls(id) == {c \in BagToSet(startupCalls) : c.id = id}
PendingBatches(id) == {b \in BagToSet(startTimers) : b.id = id}
CallCount(bag, id) ==
    LET S == {c \in BagToSet(bag) : c.id = id}
    IN  IF S = {} THEN 0 ELSE BagCardinality([c \in S |-> bag[c]])

(* C7, as claimed: P, once STARTING, becomes RUNNING on its own schedule    *)
(* even if the adapter call for the startup lines never completes.          *)
C7_RunningNotGatedByAdapter ==
    \A id \in AllIds : (StatusOf(id) = STARTING) ~> (StatusOf(id) = RUNNING)

(* C7, amended: the transition to RUNNING is gated by the adapter call.     *)
(* The timers of a start are scheduled by the step in which its             *)
(* generateStartupLogs call settles, the Running timer with the actual      *)
(* number of lines; a project becomes RUNNING only by a pending Running     *)
(* timer firing; and once the timers of a start are scheduled the project   *)
(* eventually is RUNNING.                                                   *)
C7_RunningGatedByAdapter ==
    /\ [][\A id \in AllIds :
             /\ CallCount(startTimers', id) > CallCount(startTimers, id) =>
                    /\ CallCount(startupCalls', id) = CallCount(startupCalls, id) - 1
                    /\ CallCount(startTimers', id) = CallCount(startTimers, id) + 1
             /\ (StatusOf(id)' = RUNNING /\ StateChanged(id)) =>
                    /\ \E b \in PendingBatches(id) : b.lines = <<>>
                    /\ CallCount(startTimers', id) = CallCount(startTimers, id) - 1]_vars
    /\ \A id \in AllIds : (PendingBatches(id) # {}) ~> (StatusOf(id) = RUNNING)

\* the call of a start has settled: the project is STARTING, its timers pending
C7_Witness ==
    \E id \in ProjectIds :
        /\ StatusOf(id) = STARTING
        /\ PendingCalls(id) = {}
        /\ \E b \in PendingBatches(id) : b.lines # <<>>

-----------------------------------------------------------------------------
LifecycleEdges ==
    {<<STOPPED, STARTING>>, <<STARTING, RUNNING>>, <<RUNNING, STOPPING>>,
     <<STOPPING, STOPPED>>}

(* C8: every change of a project's status follows one of the edges          *)
(* STOPPED (or absent) -> STARTING -> RUNNING -> STOPPING -> STOPPED.       *)
C8_LifecycleEdgesOnly ==
    [][\A id \in AllIds :
          StatusOf(id)' # StatusOf(id) =>
              <<StatusOf(id), StatusOf(id)'>> \in LifecycleEdges]_vars

\* the part of C8 the code keeps: no step enters ERROR
C8_NeverError == \A id \in DOMAIN processStates : processStates[id].status # ERROR

\* the part of C8 about the Running timer: no step takes a STOPPED or STOPPING
\* project directly to RUNNING
C8_NoStaleRunning ==
    [][\A id \in AllIds :
          (StatusOf(id) \in {STOPPED, STOPPING} /\ id \in DOMAIN processStates) =>
              StatusOf(id)' # RUNNING]_vars

-----------------------------------------------------------------------------
(* C9: an emitter tick changes no ProcessState and no project; with no      *)
(* project RUNNING it sets the global status to idle and requests nothing;  *)
(* otherwise it sets it to running and requests at most one runtime line,   *)
(* for a project RUNNING at the tick; a request appends at most one entry,  *)
(* of severity info, to the log of that project only.                       *)
C9_EmitterTick ==
    [][/\ \A randomId \in AllIds, r \in RandSamples :
              emitterTick(randomId, r) =>
                  /\ UNCHANGED <<processStates, projects, logs>>
                  /\ globalStatus' =
                         IF \E id \in DOMAIN processStates :
                                processStates[id].status = RUNNING
                         THEN "running" ELSE "idle"
                  /\ \/ runtimeCalls' = runtimeCalls
                     \/ \E id \in AllIds :
                            /\ StatusOf(id) = RUNNING
                            /\ CallCount(runtimeCalls', id) =
                                   CallCount(runtimeCalls, id) + 1
                            /\ BagCardinality(runtimeCalls') =
                                   BagCardinality(runtimeCalls) + 1
       /\ \A call \in BagToSet(runtimeCalls), c \in AppCollaborators :
              runtimeLogSettled(call, c) =>
                  /\ UNCHANGED <<processStates, projects>>
                  /\ BagCardinality(runtimeCalls') = BagCardinality(runtimeCalls) - 1
                  /\ CallCount(runtimeCalls', call.id) =
                         CallCount(runtimeCalls, call.id) - 1
                  /\ OtherLogsUnchanged(call.id)
                  /\ \/ LogOf(logs', call.id) = LogOf(logs, call.id)
                     \/ \E e \in {LogOf(logs', call.id)[k] :
                                     k \in 1..Len(LogOf(logs', call.id))} :
                            /\ e.type = "info"
                            /\ AppendedOne(LogOf(logs, call.id),
                                           LogOf(logs', call.id), e)]_vars

\* a tick found a RUNNING project and the line it requested has been appended
C9_Witness ==
    /\ globalStatus = "running"
    /\ \E id \in ProjectIds :
           /\ StatusOf(id) = RUNNING
           /\ LogOf(logs, id) # <<>>
           /\ logs[id][Len(logs[id])].text \in
                  {<<"[INFO] Request processed /api/v1/status 200 OK">>,
                   <<"[INFO] Keep-alive ping...">>}

-----------------------------------------------------------------------------
(* C10: deleteProject(id) while id is not RUNNING removes exactly the       *)
(* project id, the others keeping their order, and clears the selection     *)
(* if and only if id was selected.                                          *)
C10_DeleteRemovesExactlyOne ==
    [][\A id \in AllIds :
          (handleDeleteProject(id) /\ id \in ProjectIds /\ StatusOf(id) # RUNNING) =>
              /\ Len(projects') = Len(projects) - 1
              /\ \E k \in 1..Len(projects) :
                     /\ projects[k].id = id
                     /\ \A i \in 1..(k - 1) : projects'[i] = projects[i]
                     /\ \A i \in k..Len(projects') : projects'[i] = projects[i + 1]
              /\ selectedProjectId' =
                     IF selectedProjectId = id THEN NoSelection ELSE selectedProjectId]_vars

\* the middle project of three has been deleted
C10_Witness ==
    /\ selectedProjectId = NoSelection
    /\ Len(projects) = Len(INITIAL_PROJECTS)
    /\ projects[1] = INITIAL_PROJECTS[1]
    /\ projects[Len(projects)].id \in NewIds

-----------------------------------------------------------------------------
(* C11: port mutual exclusion: no two distinct projects of the collection   *)
(* that are both RUNNING declare the same port, also when the second was    *)
(* started while the first was still STARTING.                              *)
C11_PortMutualExclusion ==
    \A p, q \in ProjectIds :
        (p # q /\ StatusOf(p) = RUNNING /\ StatusOf(q) = RUNNING) =>
            Find(p).port # Find(q).port

-----------------------------------------------------------------------------
(* C12: every id whose ProcessState is RUNNING is the id of a project of    *)
(* the collection: a deleted project never comes to be RUNNING.             *)
C12_RunningIsInCollection ==
    \A id \in DOMAIN processStates :
        processStates[id].status = RUNNING => id \in ProjectIds

-----------------------------------------------------------------------------
(* C13: a ProcessState carries a pid if and only if its status is RUNNING,  *)
(* the pid is an integer in 1000..9999, and every step that writes          *)
(* STARTING, STOPPING or STOPPED leaves the ProcessState without a pid.     *)
C13_PidIffRunning ==
    /\ [](\A id \in DOMAIN processStates :
             /\ HasPid(id) <=> processStates[id].status = RUNNING
             /\ HasPid(id) => processStates[id].pid \in 1000..9999)
    /\ [][\A id \in AllIds :
             (StateChanged(id) /\ StatusOf(id)' \in {STARTING, STOPPING, STOPPED}) =>
                 ~HasPid(id)']_vars

\* a project that was RUNNING has been stopped: its ProcessState is STOPPING,
\* written over one that carried a pid
C13_Witness ==
    \E id \in ProjectIds :
        /\ StatusOf(id) = STOPPING
        /\ ~HasPid(id)
        /\ Len(LogOf(logs, id)) >= 2
        /\ logs[id][Len(logs[id])].text = SigtermText
        /\ logs[id][Len(logs[id]) - 1].type = "success"

-----------------------------------------------------------------------------
(* C14: a RUNNING project still carries the start timestamp recorded on     *)
(* its transition to STARTING.                                              *)
C14_RunningKeepsStartTime ==
    \A id \in DOMAIN processStates :
        processStates[id].status = RUNNING => HasStartTime(id)

====
